---- MODULE Spec2Model ----
(***************************************************************************)
(* Model of the portfolio application's asset resolvers                    *)
(* (app/core/assets.py: ProfessionalAssetManager; main.py: AssetManager)   *)
(* and of the page render of main.py.  Definitions prefixed PAM_ model     *)
(* ProfessionalAssetManager, those prefixed AM_ model AssetManager.        *)
(*                                                                         *)
(* Strings are sequences of one-character strings, so that formatting,     *)
(* the space -> '+' replacement and substring tests are computed, not      *)
(* assumed.  Python values that can be passed as index, width or height    *)
(* are tagged records [t, v]:                                              *)
(*   t = "int"   the integer v                                             *)
(*   t = "float" the float v + 0.5                                         *)
(*   t = "none"  None                                                      *)
(*   t = "str"   the string StrText(v)                                     *)
(*   t = "bad"   an object whose __format__ and __mod__ raise TypeError    *)
(***************************************************************************)
EXTENDS Integers, Sequences, FiniteSets, TLC

VARIABLES
    assetAiCategories, \* ProfessionalAssetManager.AI_CATEGORIES (class attribute)
    fallbackList,      \* ProfessionalAssetManager.FALLBACK_IMAGES (class attribute)
    mainCategories,    \* AssetManager.AI_CATEGORIES of main.py (class attribute)
    call,              \* the last resolver call made: its arguments and its outcome
    earlier,           \* the resolver call made before it, when the same call is made twice
    batch,             \* the cache_images call in progress
    render,            \* the portfolio_page coroutine of one page request
    placeholder,       \* the last two get_placeholder_svg calls: arguments and results
    content,           \* the structures PortfolioData returned, as returned and as left by the caller
    tasks              \* the resolver calls running at the same time, one entry for each

classAttributes == <<assetAiCategories, fallbackList, mainCategories>>

\* a method that takes its entry out of the fallback list (list.pop) where the
\* source reads it
class_attributes_fallback_popped ==
    /\ fallbackList' = IF Len(fallbackList) > 1 THEN Tail(fallbackList)
                         ELSE fallbackList
    /\ UNCHANGED <<assetAiCategories, mainCategories>>

\* no method of assets.py or main.py assigns to, or calls a mutating method of,
\* AI_CATEGORIES or FALLBACK_IMAGES: they are only indexed and measured with len()
class_attributes_kept == UNCHANGED classAttributes
vars == <<assetAiCategories, fallbackList, mainCategories, call, earlier, batch, render, placeholder, content, tasks>>

(***************************************************************************)
(* Bounds of the model.                                                    *)
(***************************************************************************)
\* integer indices tried: -MaxIndex..MaxIndex (beyond both list lengths)
MaxIndex == 11
\* tokens drawn from each random.randint(lo, hi): lo..lo+NumSeeds-1 and hi
NumSeeds == 1
\* cache_images: at most MaxCats categories and a count of at most MaxCount
MaxCats == 2
MaxCount == 2
\* cache_images: at most MaxItems (category, i) items in a call
MaxItems == 4
\* calls of the PortfolioData accessors in one behaviour
MaxObjects == 4
\* resolver calls running at the same time
NumTasks == 2

(***************************************************************************)
(* String literals of the source.                                          *)
(***************************************************************************)
\* "https://source.unsplash.com/"
UnsplashBase == <<"h","t","t","p","s",":","/","/","s","o","u","r","c","e",".","u","n","s","p","l","a","s","h",".","c","o","m","/">>
\* "https://picsum.photos/"
PicsumBase == <<"h","t","t","p","s",":","/","/","p","i","c","s","u","m",".","p","h","o","t","o","s","/">>
\* "&sig="
SigParam == <<"&","s","i","g","=">>
\* "?random="
RandomParam == <<"?","r","a","n","d","o","m","=">>
\* "/?"
QueryStart == <<"/","?">>

\* "artificial+intelligence+technology+code" (assets.py, hero topic)
PAM_HeroTopic == <<"a","r","t","i","f","i","c","i","a","l","+","i","n","t","e","l","l","i","g","e","n","c","e","+","t","e","c","h","n","o","l","o","g","y","+","c","o","d","e">>
\* "professional+portrait+technology" (assets.py, profile topic)
PAM_ProfileTopic == <<"p","r","o","f","e","s","s","i","o","n","a","l","+","p","o","r","t","r","a","i","t","+","t","e","c","h","n","o","l","o","g","y">>
\* "https://source.unsplash.com/800x600/?" (main.py, and assets.py's cache_images)
Unsplash800x600 == <<"h","t","t","p","s",":","/","/","s","o","u","r","c","e",".","u","n","s","p","l","a","s","h",".","c","o","m","/","8","0","0","x","6","0","0","/","?">>
\* "https://source.unsplash.com/1200x600/?artificial+intelligence+technology&sig="
AM_HeroPrefix == <<"h","t","t","p","s",":","/","/","s","o","u","r","c","e",".","u","n","s","p","l","a","s","h",".","c","o","m","/","1","2","0","0","x","6","0","0","/","?","a","r","t","i","f","i","c","i","a","l","+","i","n","t","e","l","l","i","g","e","n","c","e","+","t","e","c","h","n","o","l","o","g","y","&","s","i","g","=">>
\* "https://picsum.photos/800/600?random=" (main.py, get_ai_image's except block)
AM_FallbackPrefix == <<"h","t","t","p","s",":","/","/","p","i","c","s","u","m",".","p","h","o","t","o","s","/","8","0","0","/","6","0","0","?","r","a","n","d","o","m","=">>
\* "https://picsum.photos/1200/600" (main.py, get_hero_image's except block)
AM_HeroFallback == <<"h","t","t","p","s",":","/","/","p","i","c","s","u","m",".","p","h","o","t","o","s","/","1","2","0","0","/","6","0","0">>

\* assets.py: AI_CATEGORIES, ten topic labels
AI_CATEGORIES ==
    << <<"a","r","t","i","f","i","c","i","a","l"," ","i","n","t","e","l","l","i","g","e","n","c","e">>,
       <<"m","a","c","h","i","n","e"," ","l","e","a","r","n","i","n","g">>,
       <<"d","a","t","a"," ","s","c","i","e","n","c","e">>,
       <<"n","e","u","r","a","l"," ","n","e","t","w","o","r","k">>,
       <<"t","e","c","h","n","o","l","o","g","y">>,
       <<"c","o","d","e">>,
       <<"a","l","g","o","r","i","t","h","m">>,
       <<"r","o","b","o","t","i","c","s">>,
       <<"d","e","e","p"," ","l","e","a","r","n","i","n","g">>,
       <<"c","o","m","p","u","t","e","r"," ","v","i","s","i","o","n">> >>

\* assets.py: FALLBACK_IMAGES, "https://picsum.photos/800/600?random=1" .. "=5"
FALLBACK_IMAGES ==
    << <<"h","t","t","p","s",":","/","/","p","i","c","s","u","m",".","p","h","o","t","o","s","/","8","0","0","/","6","0","0","?","r","a","n","d","o","m","=","1">>,
       <<"h","t","t","p","s",":","/","/","p","i","c","s","u","m",".","p","h","o","t","o","s","/","8","0","0","/","6","0","0","?","r","a","n","d","o","m","=","2">>,
       <<"h","t","t","p","s",":","/","/","p","i","c","s","u","m",".","p","h","o","t","o","s","/","8","0","0","/","6","0","0","?","r","a","n","d","o","m","=","3">>,
       <<"h","t","t","p","s",":","/","/","p","i","c","s","u","m",".","p","h","o","t","o","s","/","8","0","0","/","6","0","0","?","r","a","n","d","o","m","=","4">>,
       <<"h","t","t","p","s",":","/","/","p","i","c","s","u","m",".","p","h","o","t","o","s","/","8","0","0","/","6","0","0","?","r","a","n","d","o","m","=","5">> >>

\* main.py: AssetManager.AI_CATEGORIES, eight topic labels
AM_AI_CATEGORIES ==
    << <<"a","r","t","i","f","i","c","i","a","l"," ","i","n","t","e","l","l","i","g","e","n","c","e">>,
       <<"m","a","c","h","i","n","e"," ","l","e","a","r","n","i","n","g">>,
       <<"d","a","t","a"," ","s","c","i","e","n","c","e">>,
       <<"n","e","u","r","a","l"," ","n","e","t","w","o","r","k">>,
       <<"t","e","c","h","n","o","l","o","g","y">>,
       <<"c","o","d","e">>,
       <<"a","l","g","o","r","i","t","h","m">>,
       <<"r","o","b","o","t","i","c","s">> >>

(***************************************************************************)
(* Python values and the operations the resolvers apply to them.           *)
(***************************************************************************)
IntV(n) == [t |-> "int", v |-> n]
FloatV(n) == [t |-> "float", v |-> n]
NoneV == [t |-> "none", v |-> 0]
StrV(k) == [t |-> "str", v |-> k]
\* the strings passed as arguments: "abc", "x", "y", "deep learning", "Test" and
\* "AI Image" (the default label of get_placeholder_svg)
StrText(k) ==
    << <<"a","b","c">>, <<"x">>, <<"y">>,
       <<"d","e","e","p"," ","l","e","a","r","n","i","n","g">>,
       <<"T","e","s","t">>, <<"A","I"," ","I","m","a","g","e">> >>[k + 1]
BadV == [t |-> "bad", v |-> 0]

Ok(x) == [ok |-> TRUE, val |-> x, exc |-> "none"]
Raise(e) == [ok |-> FALSE, val |-> <<>>, exc |-> e]

\* the remainder of a division that truncates toward zero (C, Java, JavaScript)
TruncMod(a, n) == IF a >= 0 THEN a % n ELSE -((-a) % n)

\* Python's a % n for an int n > 0: the result has the sign of n (floored division)
FloorMod(a, n) == a - n * (a \div n)

\* index % n, n a positive int
PyMod(x, n) ==
    CASE x.t = "int" -> Ok(IntV(FloorMod(x.v, n)))
      [] x.t = "float" -> Ok(FloatV(FloorMod(x.v, n)))
      [] OTHER -> Raise("TypeError")

\* list[x]: an int in -len..len-1 selects (negative counts from the end), any other
\* int raises IndexError, a non-int raises TypeError
PyGetItem(list, x) ==
    IF x.t # "int" THEN Raise("TypeError")
    ELSE IF x.v >= 0 /\ x.v < Len(list) THEN Ok(list[x.v + 1])
    ELSE IF x.v < 0 /\ x.v >= -Len(list) THEN Ok(list[Len(list) + x.v + 1])
    ELSE Raise("IndexError")

DigitChar(d) == <<"0","1","2","3","4","5","6","7","8","9">>[d + 1]

RECURSIVE Digits(_)
Digits(n) == IF n < 10 THEN <<DigitChar(n)>> ELSE Digits(n \div 10) \o <<DigitChar(n % 10)>>

\* str(n) of an int
FormatInt(n) == IF n < 0 THEN <<"-">> \o Digits(-n) ELSE Digits(n)

\* format(x, ""), what an f-string's {x} evaluates
Format(x) ==
    CASE x.t = "int" -> Ok(FormatInt(x.v))
      [] x.t = "float" -> Ok(IF x.v < 0 THEN <<"-">> \o Digits(-(x.v + 1)) \o <<".","5">>
                                         ELSE Digits(x.v) \o <<".","5">>)
      [] x.t = "none" -> Ok(<<"N","o","n","e">>)
      [] x.t = "str" -> Ok(StrText(x.v))
      [] OTHER -> Raise("TypeError")

\* s.replace(" ", "+")
ReplaceSpaces(s) == [k \in 1..Len(s) |-> IF s[k] = " " THEN "+" ELSE s[k]]

\* sub in s
Contains(s, sub) ==
    \E k \in 0..(Len(s) - Len(sub)) : SubSeq(s, k + 1, k + Len(sub)) = sub

\* values drawn from random.randint(lo, hi)
RandInt(lo, hi) == lo..(lo + NumSeeds - 1) \cup {hi}

(***************************************************************************)
(* The record of a resolver call.                                          *)
(***************************************************************************)
NoCall ==
    [op |-> "none", index |-> NoneV, width |-> NoneV, height |-> NoneV,
     outcome |-> "none", path |-> "none", failedStep |-> 0, pos |-> -1,
     category |-> <<>>, seed |-> 0, url |-> <<>>, sleeps |-> 0]

\* the call returned `url` from its try block
Returned(c, url, sleeps) ==
    [c EXCEPT !.outcome = "returned", !.path = "success", !.url = url, !.sleeps = sleeps]
\* the except block returned `url`
FellBack(c, step, url) ==
    [c EXCEPT !.outcome = "returned", !.path = "fallback", !.failedStep = step, !.url = url]
\* the except block itself raised: the exception leaves the call
Escaped(c, step) ==
    [c EXCEPT !.outcome = "raised", !.path = "fallback", !.failedStep = step]

(***************************************************************************)
(* ProfessionalAssetManager.get_ai_image(index, width, height)             *)
(***************************************************************************)
\* the except block: FALLBACK_IMAGES[index % len(FALLBACK_IMAGES)]
PAM_ai_image_fallback(index) ==
    LET m == PyMod(index, Len(fallbackList))
    IN  IF m.ok THEN PyGetItem(fallbackList, m.val) ELSE m

\* the URL with the size fixed at 800x600 whatever width and height are asked for
PAM_ai_image_url_fixed_size(width, height, formatted_category, seed) ==
    LET w == Format(width)
        h == Format(height)
    IN  IF ~w.ok THEN w
        ELSE IF ~h.ok THEN h
        ELSE Ok(Unsplash800x600 \o formatted_category \o SigParam \o FormatInt(seed))

\* the URL without its cache-busting token
PAM_ai_image_url_no_token(width, height, formatted_category, seed) ==
    LET w == Format(width)
        h == Format(height)
    IN  IF ~w.ok THEN w
        ELSE IF ~h.ok THEN h
        ELSE Ok(UnsplashBase \o w.val \o <<"x">> \o h.val \o QueryStart
                \o formatted_category)

\* f"https://source.unsplash.com/{width}x{height}/?{formatted_category}&sig={seed}"
PAM_ai_image_url(width, height, formatted_category, seed) ==
    LET w == Format(width)
        h == Format(height)
    IN  IF ~w.ok THEN w
        ELSE IF ~h.ok THEN h
        ELSE Ok(UnsplashBase \o w.val \o <<"x">> \o h.val \o QueryStart
                \o formatted_category \o SigParam \o FormatInt(seed))

PAM_get_ai_image(index, width, height, seed) ==
    LET c0 == [NoCall EXCEPT !.op = "PAM.get_ai_image", !.index = index,
                             !.width = width, !.height = height, !.seed = seed]
        m == PyMod(index, Len(assetAiCategories))
        cat == IF m.ok THEN PyGetItem(assetAiCategories, m.val) ELSE m
        c1 == [c0 EXCEPT !.pos = IF m.ok /\ m.val.t = "int" THEN m.val.v ELSE -1,
                         !.category = IF cat.ok THEN cat.val ELSE <<>>]
        url == IF cat.ok THEN PAM_ai_image_url(width, height, ReplaceSpaces(cat.val), seed)
               ELSE cat
        step == IF ~cat.ok THEN 1 ELSE 4
        fb == PAM_ai_image_fallback(index)
    IN  IF url.ok THEN Returned(c1, url.val, 1)
        ELSE IF fb.ok THEN FellBack(c1, step, fb.val)
        ELSE Escaped(c1, step)

(***************************************************************************)
(* ProfessionalAssetManager.get_hero_image(width, height) and              *)
(* get_profile_image(width, height): no index, no delay.                   *)
(***************************************************************************)
\* f"https://source.unsplash.com/{width}x{height}/?{topic}&sig={seed}"
PAM_topic_url(width, height, topic, seed) ==
    LET w == Format(width)
        h == Format(height)
    IN  IF ~w.ok THEN w
        ELSE IF ~h.ok THEN h
        ELSE Ok(UnsplashBase \o w.val \o <<"x">> \o h.val \o QueryStart
                \o topic \o SigParam \o FormatInt(seed))

\* the except block: f"https://picsum.photos/{width}/{height}?random={random.randint(1, 1000)}"
PAM_sized_fallback(width, height, rnd) ==
    LET w == Format(width)
        h == Format(height)
    IN  IF ~w.ok THEN w
        ELSE IF ~h.ok THEN h
        ELSE Ok(PicsumBase \o w.val \o <<"/">> \o h.val \o RandomParam \o FormatInt(rnd))

PAM_fixed_topic_image(op, topic, width, height, seed, rnd) ==
    LET c0 == [NoCall EXCEPT !.op = op, !.width = width, !.height = height, !.seed = seed]
        url == PAM_topic_url(width, height, topic, seed)
        fb == PAM_sized_fallback(width, height, rnd)
    IN  IF url.ok THEN Returned(c0, url.val, 0)
        ELSE IF fb.ok THEN FellBack(c0, 4, fb.val)
        ELSE Escaped(c0, 4)

PAM_get_hero_image(width, height, seed, rnd) ==
    PAM_fixed_topic_image("PAM.get_hero_image", PAM_HeroTopic, width, height, seed, rnd)

PAM_get_profile_image(width, height, seed, rnd) ==
    PAM_fixed_topic_image("PAM.get_profile_image", PAM_ProfileTopic, width, height, seed, rnd)

(***************************************************************************)
(* AssetManager of main.py: get_ai_image(index) and get_hero_image().      *)
(***************************************************************************)
\* a fallback without the random number
AM_ai_image_fallback_plain(rnd) == PicsumBase \o <<"8","0","0","/","6","0","0">>

\* the except block: f"https://picsum.photos/800/600?random={random.randint(1, 1000)}"
AM_ai_image_fallback(rnd) == AM_FallbackPrefix \o FormatInt(rnd)

\* get_ai_image returning its URL without the delay of line 48
AM_get_ai_image_no_delay(index, seed, rnd) ==
    LET c0 == [NoCall EXCEPT !.op = "AM.get_ai_image", !.index = index, !.seed = seed]
        m == PyMod(index, Len(mainCategories))
        cat == IF m.ok THEN PyGetItem(mainCategories, m.val) ELSE m
    IN  IF cat.ok
        THEN Returned([c0 EXCEPT !.pos = m.val.v, !.category = cat.val],
                      Unsplash800x600 \o cat.val \o SigParam \o FormatInt(seed), 0)
        ELSE FellBack(c0, 1, AM_FallbackPrefix \o FormatInt(rnd))

\* f"https://source.unsplash.com/800x600/?{category}&sig={seed}": the category as it is
AM_ai_image_url(category, seed) ==
    Unsplash800x600 \o category \o SigParam \o FormatInt(seed)

AM_get_ai_image(index, seed, rnd) ==
    LET c0 == [NoCall EXCEPT !.op = "AM.get_ai_image", !.index = index, !.seed = seed]
        m == PyMod(index, Len(mainCategories))
        cat == IF m.ok THEN PyGetItem(mainCategories, m.val) ELSE m
        c1 == [c0 EXCEPT !.pos = IF m.ok /\ m.val.t = "int" THEN m.val.v ELSE -1,
                         !.category = IF cat.ok THEN cat.val ELSE <<>>]
    IN  IF cat.ok THEN Returned(c1, AM_ai_image_url(cat.val, seed), 1)
        ELSE FellBack(c1, 1, AM_ai_image_fallback(rnd))

\* the try block cannot fail: the except block's AM_HeroFallback is never returned
AM_get_hero_image(seed) ==
    Returned([NoCall EXCEPT !.op = "AM.get_hero_image", !.seed = seed],
             AM_HeroPrefix \o FormatInt(seed), 0)

(***************************************************************************)
(* ProfessionalAssetManager.cache_images(categories, count)                *)
(*                                                                         *)
(* The coroutine runs from one `await asyncio.sleep(0.1)` to the next; an  *)
(* action is one such run.  `items` is the history of the items begun:     *)
(* the category position, i, where the item failed and the URLs it         *)
(* appended to category_images.                                            *)
(***************************************************************************)
NoBatch ==
    [pc |-> "idle", categories |-> <<>>, count |-> 0, ci |-> 0, i |-> 0,
     category_images |-> <<>>, cached_images |-> <<>>, items |-> <<>>,
     outcome |-> "none"]

\* category.replace(" ", "+"): only a str has the method
PyReplaceSpaces(x) ==
    IF x.t = "str" THEN Ok(ReplaceSpaces(StrText(x.v))) ELSE Raise("AttributeError")

\* lines 164-166: f"https://source.unsplash.com/800x600/?{formatted_category}&sig={seed}"
cache_item_url(category, seed) ==
    LET f == PyReplaceSpaces(category)
    IN  IF f.ok THEN Ok(Unsplash800x600 \o f.val \o SigParam \o FormatInt(seed)) ELSE f

\* lines 171-172: FALLBACK_IMAGES[i % len(FALLBACK_IMAGES)], i an int of range(count)
cache_item_fallback(i) == fallbackList[FloorMod(i, Len(fallbackList)) + 1]

\* cached_images[category] = category_images
DictStore(d, key, value) ==
    [k \in (DOMAIN d) \cup {key} |-> IF k = key THEN value ELSE d[k]]

Item(b, failedAt, urls) == [ci |-> b.ci, i |-> b.i, failedAt |-> failedAt, urls |-> urls]

\* the loops of lines 160-176, run from the state b up to the next delay or the return
RECURSIVE cache_images_run(_, _)
cache_images_run(b0, seed) ==
    \* b is bound to the value of b0, which is then evaluated once
    CHOOSE out \in {
        IF b.ci > Len(b.categories)
        THEN [b EXCEPT !.pc = "done", !.outcome = "returned"]
        ELSE IF b.i >= b.count
        THEN cache_images_run(
                 [b EXCEPT !.cached_images = DictStore(@, b.categories[b.ci], b.category_images),
                           !.ci = @ + 1, !.i = 0, !.category_images = <<>>], seed)
        ELSE LET url == cache_item_url(b.categories[b.ci], seed)
             IN  IF url.ok
                 THEN [b EXCEPT !.category_images = Append(@, url.val),
                                !.items = Append(@, Item(b, "none", <<url.val>>)),
                                !.pc = "delay"]
                 ELSE cache_images_run(
                          [b EXCEPT !.category_images = Append(@, cache_item_fallback(b.i)),
                                    !.items = Append(@, Item(b, "replace",
                                                             <<cache_item_fallback(b.i)>>)),
                                    !.i = @ + 1], seed) :
        b \in {b0}} : TRUE

\* the except block of lines 169-172 entered from the delay of line 168, after the
\* append of line 167
cache_images_delay_failed(b) ==
    [b EXCEPT !.category_images = Append(@, cache_item_fallback(b.i)),
              !.items[Len(b.items)].failedAt = "delay",
              !.items[Len(b.items)].urls = Append(@, cache_item_fallback(b.i)),
              !.i = @ + 1, !.pc = "running"]

(***************************************************************************)
(* The page render of main.py: portfolio_page and the create_* sections.   *)
(*                                                                         *)
(* The coroutine runs from one suspension to the next; an action is one    *)
(* such run.  The calls the sections make to the UI library build markup   *)
(* only and are not modelled.  `trace` is the history of the resolutions:  *)
(* <<"start", slot>>, <<"sleep", slot>> and <<"return", slot>>.            *)
(***************************************************************************)
\* len(PortfolioData.get_projects())
NumProjects == 6

Slot(kind, n) == [kind |-> kind, n |-> n]
HeroSlot == Slot("hero", 0)
AboutSlot == Slot("about", 0)
ContactSlot == Slot("contact", 0)
ProjectSlot(k) == Slot("project", k)
NoSlot == Slot("none", 0)
ImageSlots == {HeroSlot, AboutSlot, ContactSlot} \cup {ProjectSlot(k) : k \in 1..NumProjects}

\* a page that builds the education section before the experience section
Sections_education_first ==
    <<"header", "about", "projects", "education", "experience", "contact", "footer">>

\* the sections in the order portfolio_page awaits them (lines 474-492)
Sections == <<"header", "about", "projects", "experience", "education", "contact", "footer">>

NoRender ==
    [pc |-> "idle", section |-> 0, proj |-> 0, imageDone |-> FALSE,
     awaiting |-> NoSlot, pending |-> NoCall,
     slots |-> [s \in ImageSlots |-> <<>>], calls |-> <<>>, inflight |-> {},
     sections |-> <<>>, trace |-> <<>>]

\* create_projects_section's loop before the card of index r.proj stops at the
\* last project
projects_loop_off_by_one(r) == r.proj < NumProjects - 1

\* `for i, project in enumerate(projects)` (line 307) has a card left to build
projects_loop(r) == r.proj < NumProjects

\* a page whose contact section asks for the image of index 0, as the about
\* section does
render_image_request_contact_zero(r) ==
    LET name == Sections[r.section]
    IN  CASE name = "header" /\ ~r.imageDone -> [slot |-> HeroSlot, index |-> NoneV]
          [] name = "about" /\ ~r.imageDone -> [slot |-> AboutSlot, index |-> IntV(0)]
          [] name = "projects" /\ projects_loop(r) ->
                 [slot |-> ProjectSlot(r.proj + 1), index |-> IntV(r.proj + 1)]
          [] name = "contact" /\ ~r.imageDone -> [slot |-> ContactSlot, index |-> IntV(0)]
          [] OTHER -> [slot |-> NoSlot, index |-> NoneV]

\* the image the section at r.section asks for next: its slot and the index it
\* passes to get_ai_image (lines 257, 278, 308, 409), NoSlot when it asks for none
render_image_request(r) ==
    LET name == Sections[r.section]
    IN  CASE name = "header" /\ ~r.imageDone -> [slot |-> HeroSlot, index |-> NoneV]
          [] name = "about" /\ ~r.imageDone -> [slot |-> AboutSlot, index |-> IntV(0)]
          [] name = "projects" /\ projects_loop(r) ->
                 [slot |-> ProjectSlot(r.proj + 1), index |-> IntV(r.proj + 1)]
          [] name = "contact" /\ ~r.imageDone -> [slot |-> ContactSlot, index |-> IntV(7)]
          [] OTHER -> [slot |-> NoSlot, index |-> NoneV]

\* the awaited resolver call c returns to the section: `x = await ...` is assigned
render_returned(r, slot, c) ==
    [r EXCEPT !.slots[slot] = Append(@, c.url),
              !.inflight = @ \ {slot},
              !.trace = Append(@, <<"return", slot>>),
              !.awaiting = NoSlot, !.pending = NoCall,
              !.imageDone = (slot.kind # "project"),
              !.proj = IF slot.kind = "project" THEN @ + 1 ELSE @]

\* `await AssetManager.get_...(...)`: the call c begins; it suspends the render at
\* its delay, or returns at once when it has none
render_await(r, slot, c) ==
    LET r1 == [r EXCEPT !.calls = Append(@, [slot |-> slot, index |-> c.index]),
                        !.inflight = @ \cup {slot},
                        !.trace = Append(@, <<"start", slot>>)]
    IN  IF c.sleeps > 0
        THEN [r1 EXCEPT !.awaiting = slot, !.pending = c,
                        !.trace = Append(@, <<"sleep", slot>>)]
        ELSE render_returned(r1, slot, c)

\* the section at r.section is built: portfolio_page goes on to the next one
render_section_built(r) ==
    [r EXCEPT !.sections = Append(@, Sections[r.section]),
              !.imageDone = FALSE,
              !.section = IF @ = Len(Sections) THEN @ ELSE @ + 1,
              !.pc = IF r.section = Len(Sections) THEN "done" ELSE "running"]

\* portfolio_page run from the state r up to the next suspension or its end
RECURSIVE render_run(_, _, _, _)
render_run(r0, heroSeed, seed, rnd) ==
    \* r is bound to the value of r0, which is then evaluated once
    CHOOSE out \in {
        IF r.pc = "done" \/ r.awaiting # NoSlot THEN r
        ELSE LET req == render_image_request(r)
             IN  IF req.slot = NoSlot
                 THEN render_run(render_section_built(r), heroSeed, seed, rnd)
                 ELSE render_run(
                          render_await(r, req.slot,
                                       IF req.slot = HeroSlot THEN AM_get_hero_image(heroSeed)
                                       ELSE AM_get_ai_image(req.index, seed, rnd)),
                          heroSeed, seed, rnd) :
        r \in {r0}} : TRUE

(***************************************************************************)
(* get_placeholder_svg of assets.py: the f-string that builds the markup,  *)
(* one definition for each line of the template.                           *)
(***************************************************************************)
\* x / 3 and x * 2 / 3 of the template, then format(): the repr of the float.
\* A quotient of a multiple of 3 is exact; the others are the digits float.__repr__
\* prints for the nearest double (16.666666666666668 for 50/3, and so on).
FloatRepr(n) ==
    IF n % 3 = 0 THEN FormatInt(n \div 3) \o <<".","0">>
    ELSE CASE n = 50 -> <<"1","6",".","6","6","6","6","6","6","6","6","6","6","6","6","6","6","8">>
           [] n = 100 -> <<"3","3",".","3","3","3","3","3","3","3","3","3","3","3","3","3","3","6">>
           [] n = 200 -> <<"6","6",".","6","6","6","6","6","6","6","6","6","6","6","6","6","7">>

\* format(x * mult / 3): TypeError for None, for a str (after * too) and for an
\* object without __truediv__
PyTrueDiv3(x, mult) ==
    IF x.t = "int" THEN Ok(FloatRepr(x.v * mult)) ELSE Raise("TypeError")

\* text_color = "#ffffff"
text_color == <<"#","f","f","f","f","f","f">>

\* <svg width='{width}' height='{height}' xmlns=... viewBox='0 0 {width} {height}'>
svg_open(w, h) ==
    <<"<","s","v","g"," ","w","i","d","t","h","=","'">>
    \o w
    \o <<"'"," ","h","e","i","g","h","t","=","'">>
    \o h
    \o <<"'"," ","x","m","l","n","s","=","'","h","t","t","p",":","/","/","w","w","w",".","w","3",
         ".","o","r","g","/","2","0","0","0","/","s","v","g","'"," ","v","i","e","w","B","o","x",
         "=","'","0"," ","0"," ">>
    \o w
    \o <<" ">>
    \o h
    \o <<"'",">","\n">>

\* <defs>: the linear gradient with its two stops
svg_defs ==
    <<" "," ","<","d","e","f","s",">","\n"," "," "," "," ","<","l","i","n","e","a","r","G",
         "r","a","d","i","e","n","t"," ","i","d","=","\"","g","r","a","d","\""," ","x","1","=",
         "\"","0","%","\""," ","y","1","=","\"","0","%","\""," ","x","2","=","\"","1","0","0",
         "%","\""," ","y","2","=","\"","1","0","0","%","\"",">","\n"," "," "," "," "," "," ","<",
         "s","t","o","p"," ","o","f","f","s","e","t","=","\"","0","%","\""," ","s","t","y","l",
         "e","=","\"","s","t","o","p","-","c","o","l","o","r",":","#","1","a","2","9","8","0",
         ";","s","t","o","p","-","o","p","a","c","i","t","y",":","1","\""," ","/",">","\n"," ",
         " "," "," "," "," ","<","s","t","o","p"," ","o","f","f","s","e","t","=","\"","1","0",
         "0","%","\""," ","s","t","y","l","e","=","\"","s","t","o","p","-","c","o","l","o","r",
         ":","#","2","6","d","0","c","e",";","s","t","o","p","-","o","p","a","c","i","t","y",":",
         "1","\""," ","/",">","\n"," "," "," "," ","<","/","l","i","n","e","a","r","G","r","a",
         "d","i","e","n","t",">","\n"," "," ","<","/","d","e","f","s",">","\n">>

\* <rect fill='url(#grad)' width='{width}' height='{height}'/>
svg_rect(w, h) ==
    <<" "," ","<","r","e","c","t"," ","f","i","l","l","=","'","u","r","l","(","#","g","r","a",
         "d",")","'"," ","w","i","d","t","h","=","'">>
    \o w
    \o <<"'"," ","h","e","i","g","h","t","=","'">>
    \o h
    \o <<"'","/",">","\n">>

\* a template that names the label a second time, in a <title> child
svg_text_titled(text) ==
    <<" "," ","<","t","e","x","t"," ","x","=","'","5","0","%","'"," ","y","=","'","5","0","%",
         "'"," ","d","o","m","i","n","a","n","t","-","b","a","s","e","l","i","n","e","=","'","m",
         "i","d","d","l","e","'"," ","t","e","x","t","-","a","n","c","h","o","r","=","'","m","i",
         "d","d","l","e","'"," ","f","o","n","t","-","f","a","m","i","l","y","=","'","s","a","n",
         "s","-","s","e","r","i","f","'"," ","f","o","n","t","-","s","i","z","e","=","'","2","4",
         "'"," ","f","i","l","l","=","'">>
    \o text_color
    \o <<"'",">","<","t","i","t","l","e",">">>
    \o text
    \o <<"<","/","t","i","t","l","e",">">>
    \o text
    \o <<"<","/","t","e","x","t",">","\n">>

\* <text x='50%' y='50%' ... fill='{text_color}'>{text}</text>
svg_text(text) ==
    <<" "," ","<","t","e","x","t"," ","x","=","'","5","0","%","'"," ","y","=","'","5","0","%",
         "'"," ","d","o","m","i","n","a","n","t","-","b","a","s","e","l","i","n","e","=","'","m",
         "i","d","d","l","e","'"," ","t","e","x","t","-","a","n","c","h","o","r","=","'","m","i",
         "d","d","l","e","'"," ","f","o","n","t","-","f","a","m","i","l","y","=","'","s","a","n",
         "s","-","s","e","r","i","f","'"," ","f","o","n","t","-","s","i","z","e","=","'","2","4",
         "'"," ","f","i","l","l","=","'">>
    \o text_color
    \o <<"'",">">>
    \o text
    \o <<"<","/","t","e","x","t",">","\n">>

\* <g fill="none" stroke="rgba(255,255,255,0.2)" stroke-width="1">
svg_guides_open ==
    <<" "," ","<","g"," ","f","i","l","l","=","\"","n","o","n","e","\""," ","s","t","r","o",
         "k","e","=","\"","r","g","b","a","(","2","5","5",",","2","5","5",",","2","5","5",",",
         "0",".","2",")","\""," ","s","t","r","o","k","e","-","w","i","d","t","h","=","\"","1",
         "\"",">","\n">>

\* <path d="M0,{y} L{width},{y}" />, a horizontal guideline
svg_path_across(y, w) ==
    <<" "," "," "," ","<","p","a","t","h"," ","d","=","\"","M","0",",">>
    \o y
    \o <<" ","L">>
    \o w
    \o <<",">>
    \o y
    \o <<"\""," ","/",">","\n">>

\* <path d="M{x},0 L{x},{height}" />, a vertical guideline
svg_path_down(x, h) ==
    <<" "," "," "," ","<","p","a","t","h"," ","d","=","\"","M">>
    \o x
    \o <<",","0"," ","L">>
    \o x
    \o <<",">>
    \o h
    \o <<"\""," ","/",">","\n">>

\* </g></svg>
svg_close ==
    <<" "," ","<","/","g",">","\n","<","/","s","v","g",">">>

\* get_placeholder_svg(width, height, text): every {...} of the f-string is
\* evaluated and formatted; the first one that raises ends the call
get_placeholder_svg(width, height, text) ==
    LET w == Format(width)
        h == Format(height)
        t == Format(text)
        h3 == PyTrueDiv3(height, 1)
        h23 == PyTrueDiv3(height, 2)
        w3 == PyTrueDiv3(width, 1)
        w23 == PyTrueDiv3(width, 2)
    IN  IF \E f \in {w, h, t, h3, h23, w3, w23} : ~f.ok
        THEN Raise("TypeError")
        ELSE Ok(svg_open(w.val, h.val) \o svg_defs \o svg_rect(w.val, h.val)
                \o svg_text(t.val) \o svg_guides_open
                \o svg_path_across(h3.val, w.val) \o svg_path_across(h23.val, w.val)
                \o svg_path_down(w3.val, h.val) \o svg_path_down(w23.val, h.val)
                \o svg_close)

\* one get_placeholder_svg call: its arguments and what it returned or raised
PlaceholderCall(width, height, text) ==
    [made |-> TRUE, width |-> width, height |-> height, text |-> text,
     result |-> get_placeholder_svg(width, height, text)]
NoPlaceholderCall ==
    [made |-> FALSE, width |-> NoneV, height |-> NoneV, text |-> NoneV, result |-> Raise("none")]
NoPlaceholder == [first |-> NoPlaceholderCall, second |-> NoPlaceholderCall]

(***************************************************************************)
(* PortfolioData of main.py. Each accessor returns a dict or list display, *)
(* which Python evaluates to a new object at every call. The description   *)
(* and highlight texts of a project are left out: nothing reads them but   *)
(* the page.                                                               *)
(***************************************************************************)
get_profile ==
    [name |-> "Alex Morgan",
     title |-> "Senior AI Engineer",
     tagline |-> "Building intelligent systems that solve real-world problems",
     skills |-> << [name |-> "Machine Learning", level |-> 95],
                   [name |-> "Deep Learning", level |-> 90],
                   [name |-> "Natural Language Processing", level |-> 85],
                   [name |-> "Computer Vision", level |-> 80],
                   [name |-> "MLOps", level |-> 85],
                   [name |-> "Python", level |-> 95],
                   [name |-> "TensorFlow/PyTorch", level |-> 90],
                   [name |-> "Data Engineering", level |-> 75] >>,
     contact |-> [email |-> "alex.morgan@example.com",
                  linkedin |-> "linkedin.com/in/alexmorgan",
                  github |-> "github.com/alexmorgan-ai",
                  twitter |-> "twitter.com/alexmorgan_ai"]]

get_projects ==
    << [title |-> "Conversational AI Assistant",
        technologies |-> <<"PyTorch", "Transformer Models", "FastAPI", "Redis", "Docker">>],
       [title |-> "Computer Vision for Manufacturing QA",
        technologies |-> <<"TensorFlow", "OpenCV", "Kubernetes", "NVIDIA Triton", "Python">>],
       [title |-> "Predictive Maintenance System",
        technologies |-> <<"Scikit-learn", "Prophet", "Kafka", "Spark", "AWS">>],
       [title |-> "Recommendation Engine for E-commerce",
        technologies |-> <<"Python", "PySpark", "Neo4j", "FastAPI", "React">>],
       [title |-> "NLP for Automated Document Processing",
        technologies |-> <<"Hugging Face Transformers", "spaCy", "Elasticsearch", "Flask", "Docker">>],
       [title |-> "MLOps Platform Development",
        technologies |-> <<"Kubernetes", "TensorFlow Extended", "Prometheus", "Grafana", "Python">>] >>

\* the objects of one kind ("profile" or "projects") returned so far
ObjectsOf(objects, kind) == {k \in DOMAIN objects : objects[k].kind = kind}
Changed(objects, kind) == {k \in ObjectsOf(objects, kind) : objects[k].now # objects[k].returned}

\* an accessor that keeps one structure and returns that same object each time:
\* its caller's changes are in what the next caller gets
shared_object(objects, kind) ==
    LET first == IF ObjectsOf(objects, kind) = {} THEN 0
                 ELSE CHOOSE k \in ObjectsOf(objects, kind) :
                          \A j \in ObjectsOf(objects, kind) : k <= j
        value == IF first # 0 THEN objects[first].now
                 ELSE IF kind = "profile" THEN get_profile ELSE get_projects
    IN  [kind |-> kind, returned |-> value, now |-> value,
         afterChange |-> Changed(objects, kind) # {}]

\* the return statement of an accessor: the display is evaluated, a new object.
\* afterChange records that a caller had changed an earlier one by then.
new_object(objects, kind) ==
    LET value == IF kind = "profile" THEN get_profile ELSE get_projects
    IN  [kind |-> kind, returned |-> value, now |-> value,
         afterChange |-> Changed(objects, kind) # {}]

\* what a caller may do with the structure it got
\* profile["skills"].pop(), profile["skills"].append(...), skill["level"] = 150
PopSkill(profile) ==
    [profile EXCEPT !.skills = SubSeq(profile.skills, 1, Len(profile.skills) - 1)]
AppendSkill(profile) ==
    [profile EXCEPT !.skills = Append(profile.skills, [name |-> "Rust", level |-> 40])]
RaiseLevel(profile) == [profile EXCEPT !.skills[1].level = 150]
\* projects.pop(), projects.append(projects[0])
PopProject(projects) == SubSeq(projects, 1, Len(projects) - 1)
AppendProject(projects) == Append(projects, projects[1])
CallerChanges(kind, value) ==
    IF kind = "profile" THEN {PopSkill(value), AppendSkill(value), RaiseLevel(value)}
    ELSE {PopProject(value), AppendProject(value)}

(***************************************************************************)
(* Resolver calls running at the same time (asyncio tasks of one or of     *)
(* several renders). A call keeps its index, category, seed and URL in     *)
(* locals; AssetManager.get_ai_image is suspended at its delay with the    *)
(* URL already built, ProfessionalAssetManager.get_ai_image has no await   *)
(* and runs in one piece.                                                  *)
(***************************************************************************)
Tasks == 1..NumTasks
NoTask == [pc |-> "idle", overlapped |-> FALSE, pending |-> NoCall, result |-> NoCall]
Sleeping(ts) == {u \in DOMAIN ts : ts[u].pc = "sleeping"}

\* a resolver that keeps the URL in one attribute shared by all calls: a resumed
\* call returns what the call suspended beside it has built
task_return_shared(ts, t) ==
    IF Sleeping(ts) \ {t} = {} THEN ts[t].pending.url
    ELSE ts[CHOOSE u \in Sleeping(ts) \ {t} : TRUE].pending.url

\* `return img_url` after the delay (main.py line 49): the local of this call
task_return(ts, t) == ts[t].pending.url

\* the call c begins in task t: it is suspended when it has a delay to await
task_started(ts, t, c) ==
    [ts EXCEPT ![t] = [pc |-> IF c.sleeps > 0 THEN "sleeping" ELSE "returned",
                       overlapped |-> Sleeping(ts) # {},
                       pending |-> IF c.sleeps > 0 THEN c ELSE NoCall,
                       result |-> IF c.sleeps > 0 THEN NoCall ELSE c]]

\* the delay of task t is over: the call returns
task_resumed(ts, t) ==
    [ts EXCEPT ![t].pc = "returned",
               ![t].pending = NoCall,
               ![t].result = [ts[t].pending EXCEPT !.url = task_return(ts, t)]]

(***************************************************************************)
(* Inputs.                                                                 *)
(***************************************************************************)
Indices == {IntV(i) : i \in (-MaxIndex)..MaxIndex} \cup {FloatV(2), NoneV, StrV(0), BadV}
Widths == {IntV(400), IntV(800), BadV}
Heights == {IntV(300), IntV(600), BadV}
\* categories given to cache_images: "x", "y", "deep learning" and None
BatchCategories == {StrV(1), StrV(2), StrV(3), NoneV}
SeqsUpTo(S, n) == UNION {[1..k -> S] : k \in 0..n}
\* arguments of get_placeholder_svg: the sizes of the example and of a square, None
\* and an unformattable object; the labels "Test", "AI Image", None and such an object
SvgWidths == {IntV(100), IntV(300), NoneV, BadV}
SvgHeights == {IntV(50), IntV(300), NoneV, BadV}
SvgTexts == {StrV(4), StrV(5), NoneV, BadV}
\* indices of the calls that run at the same time: two slots of one render, and
\* the first of them one turn of the rotation later
TaskIndices == {IntV(0), IntV(7), IntV(8)}

(***************************************************************************)
(* Single resolver calls.                                                  *)
(***************************************************************************)
ClassAttributes ==
    /\ assetAiCategories = AI_CATEGORIES
    /\ fallbackList = FALLBACK_IMAGES
    /\ mainCategories = AM_AI_CATEGORIES

Init ==
    /\ ClassAttributes
    /\ call = NoCall
    /\ earlier = NoCall
    /\ batch = NoBatch
    /\ render = NoRender
    /\ placeholder = NoPlaceholder
    /\ content = <<>>
    /\ tasks = [t \in Tasks |-> NoTask]

CallGetAiImage ==
    /\ \E i \in Indices, w \in Widths, h \in Heights, s \in RandInt(1000, 9999) :
          call' = PAM_get_ai_image(i, w, h, s)
    /\ class_attributes_kept /\ UNCHANGED <<earlier, batch, render, placeholder, content, tasks>>

CallGetHeroImage ==
    /\ \E w \in Widths, h \in Heights, s \in RandInt(10000, 99999), r \in RandInt(1, 1000) :
          call' = PAM_get_hero_image(w, h, s, r)
    /\ class_attributes_kept /\ UNCHANGED <<earlier, batch, render, placeholder, content, tasks>>

CallGetProfileImage ==
    /\ \E w \in Widths, h \in Heights, s \in RandInt(5000, 9999), r \in RandInt(1, 1000) :
          call' = PAM_get_profile_image(w, h, s, r)
    /\ class_attributes_kept /\ UNCHANGED <<earlier, batch, render, placeholder, content, tasks>>

CallPageAiImage ==
    /\ \E i \in Indices, s \in RandInt(1000, 9999), r \in RandInt(1, 1000) :
          call' = AM_get_ai_image(i, s, r)
    /\ class_attributes_kept /\ UNCHANGED <<earlier, batch, render, placeholder, content, tasks>>

CallPageHeroImage ==
    /\ \E s \in RandInt(10000, 99999) : call' = AM_get_hero_image(s)
    /\ class_attributes_kept /\ UNCHANGED <<earlier, batch, render, placeholder, content, tasks>>

Next ==
    \/ CallGetAiImage
    \/ CallGetHeroImage
    \/ CallGetProfileImage
    \/ CallPageAiImage
    \/ CallPageHeroImage

Spec == Init /\ [][Next]_vars

(***************************************************************************)
(* The same get_ai_image call made twice (specification SpecTwice).        *)
(***************************************************************************)
FirstCall ==
    /\ call = NoCall /\ earlier = NoCall
    /\ \E i \in Indices, w \in Widths, h \in Heights, s \in RandInt(1000, 9999) :
          call' = PAM_get_ai_image(i, w, h, s)
    /\ class_attributes_kept /\ UNCHANGED <<earlier, batch, render, placeholder, content, tasks>>

SecondCall ==
    /\ call # NoCall /\ earlier = NoCall
    /\ \E s \in RandInt(1000, 9999) :
          call' = PAM_get_ai_image(call.index, call.width, call.height, s)
    /\ earlier' = call
    /\ class_attributes_kept /\ UNCHANGED <<batch, render, placeholder, content, tasks>>

NextTwice ==
    \/ FirstCall
    \/ SecondCall

SpecTwice == Init /\ [][NextTwice]_vars

(***************************************************************************)
(* One cache_images call (specification SpecBatch).                        *)
(***************************************************************************)
CacheImagesCall ==
    /\ batch.pc = "idle"
    /\ \E cs \in SeqsUpTo(BatchCategories, MaxCats), n \in 0..MaxCount,
          s \in RandInt(1000, 9999) :
          /\ Len(cs) * n <= MaxItems
          /\ batch' = cache_images_run(
                          [NoBatch EXCEPT !.pc = "running", !.categories = cs,
                                          !.count = n, !.ci = 1], s)
    /\ class_attributes_kept /\ UNCHANGED <<call, earlier, render, placeholder, content, tasks>>

\* the delay of line 168 ends: the next item begins
CacheImagesResume ==
    /\ batch.pc = "delay"
    /\ \E s \in RandInt(1000, 9999) :
          batch' = cache_images_run([batch EXCEPT !.i = @ + 1, !.pc = "running"], s)
    /\ class_attributes_kept /\ UNCHANGED <<call, earlier, render, placeholder, content, tasks>>

\* the delay of line 168 raises an Exception (the awaited delay fails; a task
\* cancelled under Python 3.7, whose CancelledError is an Exception): line 169
\* catches it
CacheImagesDelayFails ==
    /\ batch.pc = "delay"
    /\ \E s \in RandInt(1000, 9999) :
          batch' = cache_images_run(cache_images_delay_failed(batch), s)
    /\ class_attributes_kept /\ UNCHANGED <<call, earlier, render, placeholder, content, tasks>>

\* the task is cancelled during the delay under Python 3.8 or later: CancelledError
\* is a BaseException, line 169 does not catch it and it leaves cache_images
CacheImagesCancelled ==
    /\ batch.pc = "delay"
    /\ batch' = [batch EXCEPT !.pc = "done", !.outcome = "raised"]
    /\ class_attributes_kept /\ UNCHANGED <<call, earlier, render, placeholder, content, tasks>>

NextBatch ==
    \/ CacheImagesCall
    \/ CacheImagesResume
    \/ CacheImagesDelayFails
    \/ CacheImagesCancelled

SpecBatch == Init /\ [][NextBatch]_vars

(***************************************************************************)
(* One render of the page (specification SpecRender).                      *)
(***************************************************************************)
\* a request for "/" starts portfolio_page
RenderStart ==
    /\ render.pc = "idle"
    /\ \E hs \in RandInt(10000, 99999), s \in RandInt(1000, 9999), r \in RandInt(1, 1000) :
          render' = render_run([NoRender EXCEPT !.pc = "running", !.section = 1], hs, s, r)
    /\ class_attributes_kept /\ UNCHANGED <<call, earlier, batch, placeholder, content, tasks>>

\* the delay of get_ai_image ends: the call returns and the render goes on
RenderResume ==
    /\ render.awaiting # NoSlot
    /\ \E s \in RandInt(1000, 9999), r \in RandInt(1, 1000) :
          \* the header is built: no hero token is drawn any more
          render' = render_run(render_returned(render, render.awaiting, render.pending),
                               0, s, r)
    /\ class_attributes_kept /\ UNCHANGED <<call, earlier, batch, placeholder, content, tasks>>

NextRender ==
    \/ RenderStart
    \/ RenderResume

SpecRender == Init /\ [][NextRender]_vars

(***************************************************************************)
(* get_placeholder_svg called twice, with any arguments each time.         *)
(***************************************************************************)
PlaceholderFirst ==
    /\ ~placeholder.first.made
    /\ \E w \in SvgWidths, h \in SvgHeights, t \in SvgTexts :
          placeholder' = [placeholder EXCEPT !.first = PlaceholderCall(w, h, t)]
    /\ class_attributes_kept /\ UNCHANGED <<call, earlier, batch, render, content, tasks>>

PlaceholderSecond ==
    /\ placeholder.first.made
    /\ ~placeholder.second.made
    /\ \E w \in SvgWidths, h \in SvgHeights, t \in SvgTexts :
          placeholder' = [placeholder EXCEPT !.second = PlaceholderCall(w, h, t)]
    /\ class_attributes_kept /\ UNCHANGED <<call, earlier, batch, render, content, tasks>>

NextPlaceholder ==
    \/ PlaceholderFirst
    \/ PlaceholderSecond

SpecPlaceholder == Init /\ [][NextPlaceholder]_vars

(***************************************************************************)
(* PortfolioData accessors called by several callers, who may change what  *)
(* they got.                                                               *)
(***************************************************************************)
GetProfile ==
    /\ Len(content) < MaxObjects
    /\ content' = Append(content, new_object(content, "profile"))
    /\ class_attributes_kept /\ UNCHANGED <<call, earlier, batch, render, placeholder, tasks>>

GetProjects ==
    /\ Len(content) < MaxObjects
    /\ content' = Append(content, new_object(content, "projects"))
    /\ class_attributes_kept /\ UNCHANGED <<call, earlier, batch, render, placeholder, tasks>>

CallerChangesObject ==
    /\ \E k \in DOMAIN content :
          /\ content[k].now = content[k].returned
          /\ \E v \in CallerChanges(content[k].kind, content[k].now) :
                content' = [content EXCEPT ![k].now = v]
    /\ class_attributes_kept /\ UNCHANGED <<call, earlier, batch, render, placeholder, tasks>>

NextContent ==
    \/ GetProfile
    \/ GetProjects
    \/ CallerChangesObject

SpecContent == Init /\ [][NextContent]_vars

(***************************************************************************)
(* Resolver calls in any interleaving.                                     *)
(***************************************************************************)
TaskStartPage(t) ==
    /\ tasks[t].pc = "idle"
    /\ \E i \in TaskIndices, s \in RandInt(1000, 9999), r \in RandInt(1, 1000) :
          tasks' = task_started(tasks, t, AM_get_ai_image(i, s, r))
    /\ class_attributes_kept /\ UNCHANGED <<call, earlier, batch, render, placeholder, content>>

TaskStartAsset(t) ==
    /\ tasks[t].pc = "idle"
    /\ \E i \in TaskIndices, s \in RandInt(1000, 9999) :
          tasks' = task_started(tasks, t, PAM_get_ai_image(i, IntV(800), IntV(600), s))
    /\ class_attributes_kept /\ UNCHANGED <<call, earlier, batch, render, placeholder, content>>

TaskResume(t) ==
    /\ tasks[t].pc = "sleeping"
    /\ tasks' = task_resumed(tasks, t)
    /\ class_attributes_kept /\ UNCHANGED <<call, earlier, batch, render, placeholder, content>>

NextTasks ==
    \/ \E t \in Tasks : TaskStartPage(t)
    \/ \E t \in Tasks : TaskStartAsset(t)
    \/ \E t \in Tasks : TaskResume(t)

SpecTasks == Init /\ [][NextTasks]_vars

(***************************************************************************)
(* Every operation that reads the class attributes: the single resolver    *)
(* calls, cache_images, the page render and get_placeholder_svg, one kind  *)
(* of operation in a behaviour.                                            *)
(***************************************************************************)
NextOperations ==
    \/ batch = NoBatch /\ render = NoRender /\ placeholder = NoPlaceholder /\ Next
    \/ call = NoCall /\ render = NoRender /\ placeholder = NoPlaceholder /\ NextBatch
    \/ call = NoCall /\ batch = NoBatch /\ placeholder = NoPlaceholder /\ NextRender
    \/ call = NoCall /\ batch = NoBatch /\ render = NoRender /\ NextPlaceholder

SpecOperations == Init /\ [][NextOperations]_vars

(***************************************************************************)
(* A render or a batch whose delays end: the event loop resumes a          *)
(* coroutine suspended at asyncio.sleep(0.1) when its timer is due, or the *)
(* delay fails with an Exception. No task is cancelled.                    *)
(***************************************************************************)
BatchDelayEnds ==
    \/ CacheImagesResume
    \/ CacheImagesDelayFails

NextResumed ==
    \/ batch = NoBatch /\ RenderStart
    \/ batch = NoBatch /\ RenderResume
    \/ render = NoRender /\ CacheImagesCall
    \/ render = NoRender /\ BatchDelayEnds

SpecResumed ==
    /\ Init /\ [][NextResumed]_vars
    /\ WF_vars(RenderResume)
    /\ WF_vars(BatchDelayEnds)

(***************************************************************************)
(* Properties of single resolver calls (specification Spec).               *)
(***************************************************************************)
Range(s) == {s[k] : k \in DOMAIN s}
IsPamAiImage == call.op = "PAM.get_ai_image"
IsAmAiImage == call.op = "AM.get_ai_image"

\* C1: ProfessionalAssetManager.get_ai_image never raises to its caller: whatever
\* index, width and height it is given, the call ends by returning a URL.
C1_NeverRaises == IsPamAiImage => call.outcome = "returned"

\* C2: when one of steps 1-4 of get_ai_image(i, w, h) fails, the call returns
\* exactly FALLBACK_IMAGES[i mod 5] (for an index that is no integer: an entry of
\* the fallback list).
C2_FallbackExact ==
    (IsPamAiImage /\ call.failedStep \in 1..4) =>
        /\ call.outcome = "returned"
        /\ call.url \in Range(fallbackList)
        /\ call.index.t = "int" => call.url = fallbackList[(call.index.v % 5) + 1]

\* C3: for every integer index i, of any sign and magnitude, both get_ai_image
\* resolvers select ROTATION[i mod len(ROTATION)] at a position in 0..len-1: the
\* lookup does not fail, the success path is taken unless the URL cannot be
\* formatted, and i + len(ROTATION) selects the same category.
C3_RotationLookup ==
    LET rotation == IF IsPamAiImage THEN assetAiCategories ELSE mainCategories
        n == Len(rotation)
        shifted == IntV(call.index.v + n)
        again == IF IsPamAiImage
                 THEN PAM_get_ai_image(shifted, call.width, call.height, call.seed)
                 ELSE AM_get_ai_image(shifted, call.seed, 1)
    IN  ((IsPamAiImage \/ IsAmAiImage) /\ call.index.t = "int") =>
            /\ call.pos \in 0..(n - 1)
            /\ \E k \in (-MaxIndex)..MaxIndex : call.index.v = k * n + call.pos
            /\ call.category = rotation[call.pos + 1]
            /\ call.failedStep # 1
            /\ (IsAmAiImage \/ (Format(call.width).ok /\ Format(call.height).ok))
                   => call.path = "success"
            /\ again.category = call.category
            /\ again.path = call.path

\* a negative index of large magnitude resolved on the success path
C3_Witness ==
    /\ IsPamAiImage
    /\ call.index = IntV(-MaxIndex)
    /\ call.path = "success"
    /\ call.category = assetAiCategories[FloorMod(-MaxIndex, 10) + 1]

\* C4 as stated: for every integer i and every width and height,
\* get_ai_image(i, w, h) returns a non-empty URL that contains w and h (each one
\* that has a text), on the success path and on the fallback path alike.
C4_Original ==
    (IsPamAiImage /\ call.index.t = "int") =>
        /\ call.outcome = "returned"
        /\ Len(call.url) > 0
        /\ Format(call.width).ok => Contains(call.url, Format(call.width).val)
        /\ Format(call.height).ok => Contains(call.url, Format(call.height).val)

\* C4 amended: for every integer i and every width and height, get_ai_image
\* returns a non-empty URL; on the success path it contains "{w}x{h}", on the
\* fallback path it is the fixed list entry FALLBACK_IMAGES[i mod 5], whose size
\* is 800/600 whatever w and h are.
C4_Amended ==
    (IsPamAiImage /\ call.index.t = "int") =>
        /\ call.outcome = "returned"
        /\ Len(call.url) > 0
        /\ call.path = "success" =>
              /\ Format(call.width).ok /\ Format(call.height).ok
              /\ Contains(call.url, <<"/">> \o Format(call.width).val \o <<"x">>
                                    \o Format(call.height).val \o <<"/">>)
        /\ call.path = "fallback" =>
              /\ call.url = fallbackList[(call.index.v % 5) + 1]
              /\ Contains(call.url, <<"/","8","0","0","/","6","0","0","?">>)

\* the fallback path taken with a width of 400 that the URL returned does not hold
C4_Witness ==
    /\ IsPamAiImage /\ call.index.t = "int"
    /\ call.path = "fallback" /\ call.outcome = "returned"
    /\ call.width = IntV(400)
    /\ ~Contains(call.url, <<"4","0","0">>)

\* C10 as stated: whichever resolver fails, the URL it returns is one of the five
\* URLs of the fallback list.
C10_Original ==
    (call.path = "fallback" /\ call.outcome = "returned") =>
        call.url \in Range(fallbackList)

\* C10 amended: only ProfessionalAssetManager.get_ai_image (and a batch item, see
\* cache_images) returns an entry of the fallback list when it fails;
\* AssetManager.get_ai_image returns "https://picsum.photos/800/600?random=k" with
\* k drawn from 1..1000, and no hero or profile resolver returns a URL of the list
\* from its except block.
C10_Amended ==
    (call.path = "fallback" /\ call.outcome = "returned") =>
        /\ call.op \in {"PAM.get_ai_image", "AM.get_ai_image"}
        /\ IsPamAiImage => call.url \in Range(fallbackList)
        /\ IsAmAiImage =>
              \E k \in 1..1000 : call.url = AM_FallbackPrefix \o FormatInt(k)
        /\ \A i \in 0..MaxCount : cache_item_fallback(i) \in Range(fallbackList)

\* the page's resolver failed and returned a URL that the fallback list does not hold
C10_Witness ==
    /\ IsAmAiImage
    /\ call.path = "fallback" /\ call.outcome = "returned"
    /\ call.url \notin Range(fallbackList)

(***************************************************************************)
(* Properties of the repeated call (specification SpecTwice).              *)
(***************************************************************************)
BothSucceeded ==
    /\ earlier # NoCall
    /\ earlier.path = "success" /\ call.path = "success"

C5_BatchShape ==
    (batch.pc = "done" /\ batch.outcome = "returned") =>
        /\ DOMAIN batch.cached_images = Range(batch.categories)
        /\ \A k \in DOMAIN batch.cached_images :
              Len(batch.cached_images[k]) = batch.count

\* C6: an item of the batch that fails contributes exactly one URL, the fallback
\* FALLBACK_IMAGES[i mod 5], in place of its primary URL, wherever in the item's
\* step the failure occurs, and the batch goes on: when cache_images returns,
\* every (category, i) item has been processed.
C6_ItemFallback ==
    /\ \A k \in 1..Len(batch.items) :
          LET it == batch.items[k]
          IN  /\ Len(it.urls) = 1
              /\ it.failedAt # "none" => it.urls = <<fallbackList[(it.i % 5) + 1]>>
    /\ (batch.pc = "done" /\ batch.outcome = "returned") =>
           Len(batch.items) = Len(batch.categories) * batch.count

(***************************************************************************)
(* Properties of the page render (specification SpecRender).               *)
(***************************************************************************)
CallsFor(slot) == Cardinality({k \in 1..Len(render.calls) : render.calls[k].slot = slot})
\* the image slots in the order the page shows them
SlotOrder ==
    <<HeroSlot, AboutSlot>> \o [k \in 1..NumProjects |-> ProjectSlot(k)] \o <<ContactSlot>>
Starts == {k \in 1..Len(render.trace) : render.trace[k][1] = "start"}
SleepBetween(j, k) == \E l \in (j + 1)..(k - 1) : render.trace[l][1] = "sleep"

\* C8: during one render exactly one resolver call is made per image slot (hero,
\* about, one per project card, contact): no slot is resolved twice, and when the
\* render ends every slot holds exactly one URL.
C8_OneCallPerSlot ==
    /\ \A slot \in ImageSlots :
          /\ CallsFor(slot) <= 1
          /\ Len(render.slots[slot]) <= CallsFor(slot)
    /\ render.pc = "done" =>
          /\ Len(render.calls) = Cardinality(ImageSlots)
          /\ \A slot \in ImageSlots :
                CallsFor(slot) = 1 /\ Len(render.slots[slot]) = 1

\* the render has ended with a URL in each of its nine image slots
C8_Witness ==
    /\ render.pc = "done"
    /\ \A slot \in ImageSlots : Len(render.slots[slot]) = 1
    /\ Cardinality(ImageSlots) = NumProjects + 3

\* C9 as stated: the resolutions of a render are issued one at a time, in slot
\* order, none while another is in flight, and between the starts of any two
\* consecutive resolutions the render is suspended for the delay.
C9_Original ==
    /\ Cardinality(render.inflight) <= 1
    /\ \A k \in 1..Len(render.calls) : render.calls[k].slot = SlotOrder[k]
    /\ \A j, k \in Starts : j < k => SleepBetween(j, k)

\* C9 amended: the resolutions of a render are issued one at a time, in slot
\* order, none while another is in flight; each get_ai_image resolution (about,
\* project cards, contact) suspends for the delay before it returns, so a
\* suspension lies between its start and the start of the next resolution; the
\* hero resolution has no delay: get_hero_image returns without suspending and
\* the about resolution starts with no suspension since the hero's start.
C9_Amended ==
    /\ Cardinality(render.inflight) <= 1
    /\ \A k \in 1..Len(render.calls) : render.calls[k].slot = SlotOrder[k]
    /\ \A j \in Starts :
          LET slot == render.trace[j][2]
          IN  IF slot = HeroSlot
              THEN /\ j = 1
                   /\ \A l \in 1..Len(render.trace) : render.trace[l] # <<"sleep", HeroSlot>>
                   /\ \A k \in Starts : (k > j /\ render.trace[k][2] = AboutSlot)
                                            => ~SleepBetween(j, k)
              ELSE /\ j < Len(render.trace)
                   /\ render.trace[j + 1] = <<"sleep", slot>>
                   /\ \A k \in Starts : k > j => SleepBetween(j, k)

\* the about resolution has started after the hero's with no suspension between
C9_Witness ==
    /\ Len(render.trace) >= 4
    /\ render.trace[1] = <<"start", HeroSlot>>
    /\ render.trace[2] = <<"return", HeroSlot>>
    /\ render.trace[3] = <<"start", AboutSlot>>
    /\ render.trace[4] = <<"sleep", AboutSlot>>
    /\ render.pc = "done"

(***************************************************************************)
(* Properties of get_placeholder_svg (specification SpecPlaceholder).      *)
(***************************************************************************)
\* the number of places where sub occurs in s
CountOccurrences(s, sub) ==
    Cardinality({k \in 0..(Len(s) - Len(sub)) : SubSeq(s, k + 1, k + Len(sub)) = sub})

PlaceholderCalls == {c \in {placeholder.first, placeholder.second} : c.made}
IsTestExample(c) == c.width = IntV(100) /\ c.height = IntV(50) /\ c.text = StrV(4)

\* C13: get_placeholder_svg(100, 50, "Test") returns a string that contains
\* width='100' and height='50' and the text Test exactly once; two calls with
\* equal arguments return equal results.
C13_PlaceholderExample ==
    /\ \A c \in PlaceholderCalls :
          IsTestExample(c) =>
             /\ c.result.ok
             /\ Contains(c.result.val, <<"w","i","d","t","h","=","'","1","0","0","'">>)
             /\ Contains(c.result.val, <<"h","e","i","g","h","t","=","'","5","0","'">>)
             /\ CountOccurrences(c.result.val, <<"T","e","s","t">>) = 1
    /\ \A c, d \in PlaceholderCalls :
          (c.width = d.width /\ c.height = d.height /\ c.text = d.text)
             => c.result = d.result

\* the example has been generated twice
C13_Witness ==
    /\ placeholder.second.made
    /\ IsTestExample(placeholder.first)
    /\ IsTestExample(placeholder.second)
    /\ placeholder.first.result.ok

(***************************************************************************)
(* Properties of PortfolioData (specification SpecContent).                *)
(***************************************************************************)
\* C14: every get_profile call returns 8 skills with levels in 0..100 and every
\* get_projects call returns 6 projects, whatever callers did to the structures
\* returned before: two calls of one accessor return equal structures.
C14_FreshCardinalities ==
    /\ \A k \in DOMAIN content :
          IF content[k].kind = "profile"
          THEN /\ Len(content[k].returned.skills) = 8
               /\ \A s \in Range(content[k].returned.skills) : s.level \in 0..100
          ELSE Len(content[k].returned) = 6
    /\ \A j, k \in DOMAIN content :
          content[j].kind = content[k].kind => content[j].returned = content[k].returned

\* each accessor was called again after a caller changed what it returned before
C14_Witness ==
    /\ \E k \in DOMAIN content : content[k].kind = "profile" /\ content[k].afterChange
    /\ \E k \in DOMAIN content : content[k].kind = "projects" /\ content[k].afterChange

(***************************************************************************)
(* The encoding of the category (specification Spec).                      *)
(***************************************************************************)
\* C15: a URL returned on the success path of either get_ai_image contains no
\* space: every space of the category has been replaced by "+".
C15_NoSpaceInUrl ==
    ((IsPamAiImage \/ IsAmAiImage) /\ call.outcome = "returned" /\ call.path = "success")
       => ~Contains(call.url, <<" ">>)

(***************************************************************************)
(* The categories of one render (specification SpecRender).                *)
(***************************************************************************)
\* the slots whose image comes from the rotation, and the index each one passes
RotationSlots == ImageSlots \ {HeroSlot}
SlotIndex(slot) ==
    CASE slot = AboutSlot -> 0
      [] slot = ContactSlot -> 7
      [] OTHER -> slot.n
\* the URL of a slot names the category c: ".../800x600/?" c "&sig=" ...
HasCategory(slot, c) ==
    /\ Len(render.slots[slot]) = 1
    /\ LET url == render.slots[slot][1]
           head == Unsplash800x600 \o c \o SigParam
       IN  Len(url) > Len(head) /\ SubSeq(url, 1, Len(head)) = head
SlotsOfCategory(c) == {slot \in RotationSlots : HasCategory(slot, c)}

\* C16: in one render the rotation slots pass the indices 0 (about), 1..6 (the
\* project cards in list order) and 7 (contact); no two of these slots get the
\* same category, and when the render ends every category of the page's rotation
\* names the image of exactly one slot.
C16_DistinctCategories ==
    /\ \A k \in 1..Len(render.calls) :
          render.calls[k].slot # HeroSlot =>
             render.calls[k].index = IntV(SlotIndex(render.calls[k].slot))
    /\ \A slot \in RotationSlots :
          Len(render.slots[slot]) = 1 =>
             HasCategory(slot, mainCategories[SlotIndex(slot) + 1])
    /\ \A c \in Range(mainCategories) : Cardinality(SlotsOfCategory(c)) <= 1
    /\ render.pc = "done" =>
          \A c \in Range(mainCategories) : Cardinality(SlotsOfCategory(c)) = 1

\* the render has ended and its eight rotation slots show eight categories
C16_Witness ==
    /\ render.pc = "done"
    /\ Cardinality(RotationSlots) = 8
    /\ Cardinality({c \in Range(mainCategories) : SlotsOfCategory(c) # {}}) = 8

(***************************************************************************)
(* Properties of interleaved resolver calls (specification SpecTasks).     *)
(***************************************************************************)
\* the same call made alone, with the first token of the range
Alone(c) ==
    IF c.op = "AM.get_ai_image" THEN AM_get_ai_image(c.index, 1000, 1)
    ELSE PAM_get_ai_image(c.index, c.width, c.height, 1000)
\* the URL without its token of four digits
Shape(url) == SubSeq(url, 1, Len(url) - 4)
IsToken(s) == \A k \in DOMAIN s : s[k] \in {DigitChar(d) : d \in 0..9}
SameAsAlone(c) ==
    /\ c.outcome = Alone(c).outcome
    /\ c.path = Alone(c).path
    /\ c.category = Alone(c).category
    /\ Len(c.url) = Len(Alone(c).url)
    /\ Shape(c.url) = Shape(Alone(c).url)
    /\ IsToken(SubSeq(c.url, Len(c.url) - 3, Len(c.url)))

\* C12: however the resolver calls are interleaved, each call that has returned
\* gave the category and the URL shape the same call gives when it runs alone;
\* a step of one call changes neither the class attributes nor anything another
\* call holds, and what a call has returned stays as it is.
C12_OrderInsensitive ==
    /\ [](\A t \in Tasks : tasks[t].pc = "returned" => SameAsAlone(tasks[t].result))
    /\ [][/\ classAttributes' = classAttributes
          /\ \E t \in Tasks : \A u \in Tasks \ {t} : tasks'[u] = tasks[u]
          /\ \A t \in Tasks : tasks[t].pc = "returned" => tasks'[t] = tasks[t]]_vars

\* two calls for different slots were suspended at the same time and both have
\* returned
C12_Witness ==
    /\ \A t \in Tasks : tasks[t].pc = "returned"
    /\ \E t \in Tasks : tasks[t].overlapped /\ tasks[t].result.op = "AM.get_ai_image"
    /\ \E t, u \in Tasks : tasks[t].result.category # tasks[u].result.category

(***************************************************************************)
(* The class attributes (specification SpecOperations).                    *)
(***************************************************************************)
\* C11: in every reachable state AI_CATEGORIES and FALLBACK_IMAGES of assets.py
\* and AI_CATEGORIES of main.py are the non-empty lists of the class bodies: no
\* resolver call, batch, render or placeholder call, ending well or failing, adds
\* to, removes from or reorders one of them.
C11_ListsFixed ==
    /\ assetAiCategories = AI_CATEGORIES /\ Len(assetAiCategories) = 10
    /\ fallbackList = FALLBACK_IMAGES /\ Len(fallbackList) = 5
    /\ mainCategories = AM_AI_CATEGORIES /\ Len(mainCategories) = 8

\* a batch has returned after one of its items failed and read the fallback list
C11_Witness ==
    /\ batch.pc = "done" /\ batch.outcome = "returned"
    /\ \E k \in 1..Len(batch.items) : batch.items[k].failedAt # "none"
    /\ fallbackList # <<>>

(***************************************************************************)
(* Termination (specification SpecResumed).                                *)
(***************************************************************************)
RenderEnded ==
    /\ render.pc = "done"
    /\ render.awaiting = NoSlot
    /\ render.sections =
          <<"header", "about", "projects", "experience", "education", "contact", "footer">>
\* the (category, i) pairs of the batch's loops, each begun once
ItemSteps == {<<batch.items[k].ci, batch.items[k].i>> : k \in 1..Len(batch.items)}
BatchEnded ==
    /\ batch.pc = "done" /\ batch.outcome = "returned"
    /\ Len(batch.items) = Len(batch.categories) * batch.count
    /\ ItemSteps = (1..Len(batch.categories)) \X (0..(batch.count - 1))

\* C17: when every delay ends, a render that has started ends with its seven
\* sections built in the order header, about, projects, experience, education,
\* contact, footer, and a cache_images call that has started returns after
\* len(categories) * count item steps, one for each (category, i): no item is
\* begun twice.
C17_Terminates ==
    /\ (render.pc # "idle") ~> RenderEnded
    /\ (batch.pc # "idle") ~> BatchEnded
    /\ [](Cardinality(ItemSteps) = Len(batch.items))
    /\ [](Len(batch.items) <= Len(batch.categories) * batch.count)

\* a batch of four item steps has returned
C17_Witness == BatchEnded /\ Len(batch.items) = 4 /\ batch.count = 2

\* a render has ended with its seven sections
C17_RenderWitness == RenderEnded /\ Len(render.sections) = 7

====
